---- MODULE Spec2Model ----
(***************************************************************************)
(* The milady dynamic loader (packaging/pypi/milady): Node.js detection,   *)
(* installation of the milaidy npm package, delegation of a CLI call to    *)
(* the Node.js process, and the CLI entry point.                           *)
(*                                                                         *)
(* The loader is sequential.  Every step that talks to the host (a search  *)
(* path lookup, a child process) is one action; the host's answer is       *)
(* drawn with \E at the moment of the call, since the loader re-queries    *)
(* the live environment and caches nothing.                                *)
(***************************************************************************)
EXTENDS Integers, Sequences, FiniteSets, TLC

VARIABLES
    platform,     \* os.name of the host: decides the file names which() yields
    api,          \* entry point being executed
    pc,           \* position inside the entry point
    args,         \* sys.argv[1:] / the args of run()
    nodeActual,   \* the version the node binary really has (<<>>: none printed)
    node_bin,     \* _check_node: local `node_bin`
    version,      \* _check_node: local `version`
    npm_bin,      \* _install_milaidy_global, _is_milaidy_installed_globally: `npm_bin`
    milaidy_bin,  \* ensure_runtime, get_version: local `milaidy_bin`
    npx_bin,      \* ensure_runtime: local `npx_bin`
    bin_path,     \* run: local `bin_path`
    cmd,          \* run: local `cmd`
    log,          \* every search path lookup and child process, in order
    stderr,       \* what was printed to standard error, in order
    checkOut,     \* result of _check_node()
    erOut,        \* result of ensure_runtime()
    runOut,       \* result of run()
    mainOut,      \* how main() ended the process
    gvOut,        \* result of get_version()
    listOut       \* result of _is_milaidy_installed_globally()

vars == << platform, api, pc, args, nodeActual, node_bin, version, npm_bin,
           milaidy_bin, npx_bin, bin_path, cmd, log, stderr,
           checkOut, erOut, runOut, mainOut, gvOut, listOut >>

----------------------------------------------------------------------------
(* Bounds of the explored environment. *)

MaxArgs == 2
MaxExitCode == 7
MaxMajor == 23
MaxMinor == 13
MaxPatch == 1

----------------------------------------------------------------------------
(* Constants of loader.py. *)

REQUIRED_NODE_VERSION == << 22, 12, 0 >>
NPM_PACKAGE == "milaidy"

----------------------------------------------------------------------------
(* Exceptions: the classes the loader defines or meets, and `except`. *)

Parent(cls) ==
    CASE cls = "NodeNotFoundError" -> "MiladyError"
      [] cls = "RuntimeInstallError" -> "MiladyError"
      [] cls = "MiladyError" -> "Exception"
      [] cls = "FileNotFoundError" -> "OSError"
      [] cls = "OSError" -> "Exception"
      [] cls = "TimeoutExpired" -> "SubprocessError"
      [] cls = "SubprocessError" -> "Exception"
      [] cls = "JSONDecodeError" -> "ValueError"
      [] cls = "ValueError" -> "Exception"
      [] cls = "AttributeError" -> "Exception"
      [] cls = "TypeError" -> "Exception"
      [] cls = "Exception" -> "BaseException"
      [] cls = "KeyboardInterrupt" -> "BaseException"
      [] OTHER -> "BaseException"

RECURSIVE IsSubclass(_, _)
IsSubclass(cls, base) ==
    IF cls = base THEN TRUE
    ELSE IF cls = "BaseException" THEN FALSE
    ELSE IsSubclass(Parent(cls), base)

\* `except (A, B, ...)` catches an exception of class cls
Catches(handled, cls) == \E h \in handled : IsSubclass(cls, h)

----------------------------------------------------------------------------
(* Paths and the search path.  A path is its directory and its file name. *)

None == [dir |-> "", base |-> ""]

Platforms == { "posix", "nt" }

\* On Windows shutil.which() tries the PATHEXT extensions, so the file it
\* finds for a command carries one.
WinName(name) ==
    CASE name = "node" -> "node.exe"
      [] name = "npm" -> "npm.cmd"
      [] name = "npx" -> "npx.cmd"
      [] name = "milaidy" -> "milaidy.cmd"

PathFor(os, name) ==
    IF os = "posix" THEN [dir |-> "/usr/local/bin", base |-> name]
    ELSE [dir |-> "C:/nodejs", base |-> WinName(name)]

\* shutil.which(name): absent, or the file found on the search path
Which(os, name) == { None, PathFor(os, name) }

basename(p) == p.base

\* `if p:` / `if not p:` on an Optional[str]
Truthy(p) == p # None

----------------------------------------------------------------------------
(* Results of child processes. *)

Exit(c, out) == [kind |-> "exit", code |-> c, stdout |-> out, cls |-> ""]
Raised(c) == [kind |-> "raise", code |-> 0, stdout |-> << >>, cls |-> c]

ExitCodes == 0 .. MaxExitCode

----------------------------------------------------------------------------
(* Strings are sequences of one-character strings. *)

DigitChars == << "0", "1", "2", "3", "4", "5", "6", "7", "8", "9" >>

IsDigit(c) == \E i \in 1 .. 10 : DigitChars[i] = c

DigitVal(c) == (CHOOSE i \in 1 .. 10 : DigitChars[i] = c) - 1

Whitespace == { " ", "\n", "\t" }

\* str(n) for a non-negative int
RECURSIVE Str(_)
Str(n) ==
    IF n < 10 THEN << DigitChars[n + 1] >>
    ELSE Str(n \div 10) \o << DigitChars[(n % 10) + 1] >>

\* int(s) for a string of digits
RECURSIVE Int_(_)
Int_(s) ==
    IF Len(s) = 0 THEN 0
    ELSE 10 * Int_(SubSeq(s, 1, Len(s) - 1)) + DigitVal(s[Len(s)])

\* str.strip()
RECURSIVE Strip(_)
Strip(s) ==
    IF Len(s) = 0 THEN s
    ELSE IF s[1] \in Whitespace THEN Strip(Tail(s))
    ELSE IF s[Len(s)] \in Whitespace THEN Strip(SubSeq(s, 1, Len(s) - 1))
    ELSE s

\* s.split("\n")[-1]: what follows the last newline
RECURSIVE LastLine(_)
LastLine(s) ==
    IF Len(s) = 0 THEN s
    ELSE IF s[Len(s)] = "\n" THEN << >>
    ELSE LastLine(SubSeq(s, 1, Len(s) - 1)) \o << s[Len(s)] >>

----------------------------------------------------------------------------
(* _VERSION_RE = v?(\d+)\.(\d+)\.(\d+) and _parse_version. *)

NoVersion == << >>

\* the index after the longest run of digits that starts at index j
RECURSIVE DigitsEnd(_, _)
DigitsEnd(s, j) ==
    IF j <= Len(s) /\ IsDigit(s[j]) THEN DigitsEnd(s, j + 1) ELSE j

IsDot(s, i) == i <= Len(s) /\ s[i] = "."

\* the groups of a match of _VERSION_RE that starts at index i, or NoVersion.
\* \d+ is greedy, and a shorter run cannot be followed by the dot.
MatchAt(s, i) ==
    LET j == IF s[i] = "v" THEN i + 1 ELSE i
        e1 == DigitsEnd(s, j)
        e2 == DigitsEnd(s, e1 + 1)
        e3 == DigitsEnd(s, e2 + 1)
    IN  IF /\ e1 > j
           /\ IsDot(s, e1)
           /\ e2 > e1 + 1
           /\ IsDot(s, e2)
           /\ e3 > e2 + 1
        THEN << Int_(SubSeq(s, j, e1 - 1)),
                Int_(SubSeq(s, e1 + 1, e2 - 1)),
                Int_(SubSeq(s, e2 + 1, e3 - 1)) >>
        ELSE NoVersion

\* _VERSION_RE.search(): the leftmost match
parse_version(s) ==
    LET starts == { i \in 1 .. Len(s) : MatchAt(s, i) # NoVersion }
    IN  IF starts = {} THEN NoVersion
        ELSE MatchAt(s, CHOOSE i \in starts : \A k \in starts : i <= k)

\* a < b on tuples of ints, as Python compares them
RECURSIVE TupleLessFrom(_, _, _)
TupleLessFrom(a, b, i) ==
    IF i > Len(a) \/ i > Len(b) THEN Len(a) < Len(b)
    ELSE IF a[i] # b[i] THEN a[i] < b[i]
    ELSE TupleLessFrom(a, b, i + 1)

\* variant: a component-wise comparison instead of the tuple order
TupleLess_componentwise(a, b) ==
    \E i \in 1 .. 3 : i <= Len(a) /\ i <= Len(b) /\ a[i] < b[i]

TupleLess(a, b) == TupleLessFrom(a, b, 1)

----------------------------------------------------------------------------
(* What `node --version` can print. *)

Versions ==
    { << ma, mi, pa >> : ma \in 21 .. MaxMajor,
                         mi \in { 0 } \cup (11 .. MaxMinor),
                         pa \in 0 .. MaxPatch }

Prefixes == { << >>, << "v" >> }
Suffixes == { << "\n" >>, << "-", "r", "c", ".", "1", "\n" >> }

FormatVersion(pre, v, suf) ==
    pre \o Str(v[1]) \o << "." >> \o Str(v[2]) \o << "." >> \o Str(v[3]) \o suf

\* output that holds no version: nothing, text, and a two-part version
Garbage ==
    { << >>,
      << "n", "/", "a", "\n" >>,
      << "v", "2", "2", ".", "1", "2", "\n" >> }

\* how `node --version` can end, with the version the binary really has
NodeAnswers ==
    { [proc |-> Exit(0, FormatVersion(pre, v, suf)), actual |-> v] :
          pre \in Prefixes, v \in Versions, suf \in Suffixes }
    \cup { [proc |-> Exit(0, g), actual |-> NoVersion] : g \in Garbage }
    \cup { [proc |-> Exit(1, FormatVersion(<< "v" >>, v, << "\n" >>)), actual |-> v] :
              v \in { REQUIRED_NODE_VERSION } }
    \cup { [proc |-> Raised(c), actual |-> NoVersion] :
              c \in { "TimeoutExpired", "FileNotFoundError", "OSError",
                      "KeyboardInterrupt" } }

----------------------------------------------------------------------------
(* Results of the loader's functions: a returned value or an exception. *)

NoRes(v) == [kind |-> "none", val |-> v, cls |-> "", msg |-> ""]
Returns(v) == [kind |-> "return", val |-> v, cls |-> "", msg |-> ""]
Raises(c, m, v) == [kind |-> "raise", val |-> v, cls |-> c, msg |-> m]

\* the first line of each message the loader raises
MsgNotFound == "Node.js not found."
MsgVersionUnknown == "Could not determine version of Node.js"
MsgVersionTooOld == "Node.js found, but a newer one is required."
MsgNpmNotFound == "npm not found. Cannot install milaidy runtime."
MsgInstallFailed == "Failed to install milaidy via npm"
MsgInstallTimeout == "Timed out installing milaidy."
MsgNotOnPath == "milaidy was installed but the binary was not found on PATH."
MsgCouldNotExecute == "Could not execute"
MsgFailedToRun == "Failed to run milaidy"

\* entries of the log
Lookup(name, res) ==
    [op |-> "which", name |-> name, bin |-> res, rest |-> << >>,
     how |-> "", code |-> 0, cls |-> ""]
Exec(bin, rest, proc) ==
    [op |-> "exec", name |-> "", bin |-> bin, rest |-> rest,
     how |-> proc.kind, code |-> proc.code, cls |-> proc.cls]

\* lines printed to standard error
Status(text) == [kind |-> "status", prefix |-> "milady: ", text |-> text]
Diagnostic(text) == [kind |-> "diagnostic", prefix |-> "milady: ", text |-> text]
Traceback(c) == [kind |-> "traceback", prefix |-> "Traceback", text |-> c]

----------------------------------------------------------------------------
(* The decisions of loader.py and cli.py, as functions of what the host    *)
(* answered.                                                               *)

\* _get_node_version: the version, NoVersion for None, or an exception that
\* `except (subprocess.SubprocessError, OSError)` does not catch
get_node_version(proc) ==
    IF proc.kind = "exit"
    THEN IF proc.code = 0
         THEN Returns(parse_version(Strip(proc.stdout)))
         ELSE Returns(NoVersion)
    ELSE IF Catches({ "SubprocessError", "OSError" }, proc.cls)
         THEN Returns(NoVersion)
         ELSE Raises(proc.cls, "", NoVersion)

\* variant: the comparison with REQUIRED_NODE_VERSION left out
check_version_uncompared(bin, ver) ==
    IF ver = NoVersion
    THEN Raises("NodeNotFoundError", MsgVersionUnknown, None)
    ELSE Returns(bin)

\* _check_node after `version = _get_node_version(node_bin)`
check_version(bin, ver) ==
    IF ver = NoVersion
    THEN Raises("NodeNotFoundError", MsgVersionUnknown, None)
    ELSE IF TupleLess(ver, REQUIRED_NODE_VERSION)
         THEN Raises("NodeNotFoundError", MsgVersionTooOld, None)
         ELSE Returns(bin)

\* variant: the return code of npm is not looked at
install_result_unchecked(proc) ==
    IF proc.kind = "exit" THEN Returns(TRUE)
    ELSE IF Catches({ "TimeoutExpired" }, proc.cls)
         THEN Raises("RuntimeInstallError", MsgInstallTimeout, FALSE)
         ELSE Raises(proc.cls, "", FALSE)

\* _install_milaidy_global after npm was found: the try block around
\* subprocess.run([npm_bin, "install", "-g", NPM_PACKAGE], timeout=120)
install_result(proc) ==
    IF proc.kind = "exit"
    THEN IF proc.code # 0
         THEN Raises("RuntimeInstallError", MsgInstallFailed, FALSE)
         ELSE Returns(TRUE)
    ELSE IF Catches({ "TimeoutExpired" }, proc.cls)
         THEN Raises("RuntimeInstallError", MsgInstallTimeout, FALSE)
         ELSE Raises(proc.cls, "", FALSE)

\* variant: no early return when the tool is already there
after_first_lookup_noreturn(p) == NoRes(None)

\* ensure_runtime after the first `milaidy_bin = _find_milaidy_bin()`:
\* return it, or go on (no result yet)
after_first_lookup(p) ==
    IF Truthy(p) THEN Returns(p) ELSE NoRes(None)

\* variant: the result of the first lookup is tested again
after_second_lookup_stale(p) ==
    IF ~Truthy(milaidy_bin) THEN NoRes(None) ELSE Returns(milaidy_bin)

\* ensure_runtime after the second `milaidy_bin = _find_milaidy_bin()`
after_second_lookup(p) ==
    IF ~Truthy(p) THEN NoRes(None) ELSE Returns(p)

\* variant: no fallback to npx
after_npx_lookup_nofallback(p) ==
    Raises("RuntimeInstallError", MsgNotOnPath, None)

\* ensure_runtime after `npx_bin = _find_npx()`
after_npx_lookup(p) ==
    IF Truthy(p) THEN Returns(p)
    ELSE Raises("RuntimeInstallError", MsgNotOnPath, None)

\* run: the command line built from the resolved path
build_cmd(bin, argv) ==
    IF basename(bin) = "npx"
    THEN [bin |-> bin, rest |-> << NPM_PACKAGE >> \o argv]
    ELSE [bin |-> bin, rest |-> argv]

\* variant: a nonzero exit code is raised, as subprocess.run(check=True) does
run_result_checked(proc) ==
    IF proc.kind = "exit"
    THEN IF proc.code = 0 THEN Returns(0)
         ELSE Raises("MiladyError", MsgFailedToRun, 0)
    ELSE IF Catches({ "FileNotFoundError" }, proc.cls)
         THEN Raises("MiladyError", MsgCouldNotExecute, 0)
    ELSE IF Catches({ "OSError" }, proc.cls)
         THEN Raises("MiladyError", MsgFailedToRun, 0)
    ELSE Raises(proc.cls, "", 0)

\* run: the try block around subprocess.run(cmd)
run_result(proc) ==
    IF proc.kind = "exit" THEN Returns(proc.code)
    ELSE IF Catches({ "FileNotFoundError" }, proc.cls)
         THEN Raises("MiladyError", MsgCouldNotExecute, 0)
    ELSE IF Catches({ "OSError" }, proc.cls)
         THEN Raises("MiladyError", MsgFailedToRun, 0)
    ELSE Raises(proc.cls, "", 0)

\* main: what the process exits with and prints, given how run() ended
main_result(r) ==
    IF r.kind = "return"
    THEN [kind |-> "exit", code |-> r.val, printed |-> << >>]
    ELSE IF Catches({ "MiladyError" }, r.cls)
    THEN [kind |-> "exit", code |-> 1, printed |-> << Diagnostic(r.msg) >>]
    ELSE IF Catches({ "KeyboardInterrupt" }, r.cls)
    THEN [kind |-> "exit", code |-> 130, printed |-> << >>]
    ELSE [kind |-> "uncaught", code |-> 1, printed |-> << Traceback(r.cls) >>]

\* get_version: the try block around subprocess.run([milaidy_bin, "--version"])
NoneStr == [isNone |-> TRUE, s |-> << >>]
SomeStr(s) == [isNone |-> FALSE, s |-> s]

get_version_result(proc) ==
    IF proc.kind = "exit"
    THEN IF proc.code = 0
         THEN Returns(SomeStr(LastLine(Strip(proc.stdout))))
         ELSE Returns(NoneStr)
    ELSE IF Catches({ "SubprocessError", "OSError" }, proc.cls)
         THEN Returns(NoneStr)
         ELSE Raises(proc.cls, "", NoneStr)

\* what `npm list -g milaidy --json` prints, as far as the code looks at it
JsonDoc(valid, type, deps, has) ==
    [valid |-> valid, type |-> type, deps |-> deps, has |-> has]

JsonDocs ==
    { JsonDoc(FALSE, "", "", FALSE),
      JsonDoc(TRUE, "array", "", FALSE),
      JsonDoc(TRUE, "object", "absent", FALSE),
      JsonDoc(TRUE, "object", "null", FALSE),
      JsonDoc(TRUE, "object", "object", FALSE),
      JsonDoc(TRUE, "object", "object", TRUE) }

\* json.loads(result.stdout), data.get("dependencies", {}), NPM_PACKAGE in deps
listed(doc) ==
    IF ~doc.valid THEN Raises("JSONDecodeError", "", FALSE)
    ELSE IF doc.type # "object" THEN Raises("AttributeError", "", FALSE)
    ELSE IF doc.deps = "absent" THEN Returns(FALSE)
    ELSE IF doc.deps = "null" THEN Raises("TypeError", "", FALSE)
    ELSE Returns(doc.has)

\* _is_milaidy_installed_globally: the try block around `npm list`
is_installed_result(proc) ==
    LET r == IF proc.kind = "exit"
             THEN IF proc.code = 0 THEN listed(proc.stdout) ELSE Returns(FALSE)
             ELSE Raises(proc.cls, "", FALSE)
    IN  IF r.kind = "raise"
        THEN IF Catches({ "SubprocessError", "OSError", "JSONDecodeError" }, r.cls)
             THEN Returns(FALSE)
             ELSE r
        ELSE r

----------------------------------------------------------------------------
(* The state machine. *)

ArgWords == { "start", "--help" }

ArgSeqs == UNION { [1 .. n -> ArgWords] : n \in 0 .. MaxArgs }

Init ==
    /\ platform \in Platforms
    /\ api = "none"
    /\ pc = "idle"
    /\ args = << >>
    /\ nodeActual = NoVersion
    /\ node_bin = None
    /\ version = NoVersion
    /\ npm_bin = None
    /\ milaidy_bin = None
    /\ npx_bin = None
    /\ bin_path = None
    /\ cmd = [bin |-> None, rest |-> << >>]
    /\ log = << >>
    /\ stderr = << >>
    /\ checkOut = NoRes(None)
    /\ erOut = NoRes(None)
    /\ runOut = NoRes(0)
    /\ mainOut = [kind |-> "none", code |-> 0, printed |-> << >>]
    /\ gvOut = NoRes(NoneStr)
    /\ listOut = NoRes(FALSE)

\* an exception leaves ensure_runtime(): run() has no handler around the
\* call, so it leaves run() too and reaches the handlers of main()
RaiseFromEnsure(c, m) ==
    LET r == Raises(c, m, 0)
        m_ == main_result(r)
    IN  /\ erOut' = Raises(c, m, None)
        /\ runOut' = r
        /\ mainOut' = m_
        /\ stderr' = stderr \o m_.printed
        /\ pc' = "done"

\* ensure_runtime() returns p to run()
ReturnFromEnsure(p) ==
    /\ erOut' = Returns(p)
    /\ bin_path' = p
    /\ pc' = "build_cmd"

\* cli.main(): args = sys.argv[1:]; run(args) -> ensure_runtime() -> _check_node()
CallMain ==
    /\ pc = "idle"
    /\ \E a \in ArgSeqs : args' = a
    /\ api' = "main"
    /\ pc' = "find_node"
    /\ UNCHANGED << platform, nodeActual, node_bin, version, npm_bin,
                    milaidy_bin, npx_bin, bin_path, cmd, log, stderr,
                    checkOut, erOut, runOut, mainOut, gvOut, listOut >>

\* _check_node: node_bin = _find_node(); if not node_bin: raise
FindNode ==
    /\ pc = "find_node"
    /\ \E p \in Which(platform, "node") :
         /\ node_bin' = p
         /\ log' = Append(log, Lookup("node", p))
         /\ IF Truthy(p)
            THEN /\ pc' = "node_version"
                 /\ UNCHANGED << checkOut, erOut, runOut, mainOut, stderr >>
            ELSE /\ checkOut' = Raises("NodeNotFoundError", MsgNotFound, None)
                 /\ RaiseFromEnsure("NodeNotFoundError", MsgNotFound)
    /\ UNCHANGED << platform, api, args, nodeActual, version, npm_bin,
                    milaidy_bin, npx_bin, bin_path, cmd, gvOut, listOut >>

\* _check_node: version = _get_node_version(node_bin) and the two checks on it
NodeVersion ==
    /\ pc = "node_version"
    /\ \E ans \in NodeAnswers :
         LET proc == ans.proc
             got == get_node_version(proc)
             res == check_version(node_bin, got.val)
         IN  /\ nodeActual' = ans.actual
             /\ log' = Append(log, Exec(node_bin, << "--version" >>, proc))
             /\ IF got.kind = "raise"
                THEN /\ version' = version
                     /\ checkOut' = Raises(got.cls, got.msg, None)
                     /\ RaiseFromEnsure(got.cls, got.msg)
                ELSE /\ version' = got.val
                     /\ checkOut' = res
                     /\ IF res.kind = "raise"
                        THEN RaiseFromEnsure(res.cls, res.msg)
                        ELSE /\ pc' = "find_milaidy"
                             /\ UNCHANGED << erOut, runOut, mainOut, stderr >>
    /\ UNCHANGED << platform, api, args, node_bin, npm_bin, milaidy_bin,
                    npx_bin, bin_path, cmd, gvOut, listOut >>

\* ensure_runtime: milaidy_bin = _find_milaidy_bin(); if milaidy_bin: return
FindMilaidy ==
    /\ pc = "find_milaidy"
    /\ \E p \in Which(platform, "milaidy") :
         /\ milaidy_bin' = p
         /\ log' = Append(log, Lookup("milaidy", p))
         /\ LET r == after_first_lookup(p)
            IN  IF r.kind = "return"
                THEN ReturnFromEnsure(r.val)
                ELSE /\ pc' = "install_find_npm"
                     /\ UNCHANGED << erOut, bin_path >>
    /\ UNCHANGED << platform, api, args, nodeActual, node_bin, version,
                    npm_bin, npx_bin, cmd, stderr, checkOut, runOut,
                    mainOut, gvOut, listOut >>

\* _install_milaidy_global: npm_bin = _find_npm(); if not npm_bin: raise;
\* print the status line
InstallFindNpm ==
    /\ pc = "install_find_npm"
    /\ \E p \in Which(platform, "npm") :
         /\ npm_bin' = p
         /\ log' = Append(log, Lookup("npm", p))
         /\ IF Truthy(p)
            THEN /\ stderr' = Append(stderr, Status("installing"))
                 /\ pc' = "install_exec"
                 /\ UNCHANGED << erOut, runOut, mainOut >>
            ELSE RaiseFromEnsure("RuntimeInstallError", MsgNpmNotFound)
    /\ UNCHANGED << platform, api, args, nodeActual, node_bin, version,
                    milaidy_bin, npx_bin, bin_path, cmd, checkOut, gvOut,
                    listOut >>

\* _install_milaidy_global: subprocess.run([npm_bin, "install", "-g", NPM_PACKAGE])
InstallExec ==
    /\ pc = "install_exec"
    /\ \E proc \in { Exit(c, << >>) : c \in ExitCodes }
                   \cup { Raised("TimeoutExpired"), Raised("FileNotFoundError"),
                          Raised("OSError"), Raised("KeyboardInterrupt") } :
         LET res == install_result(proc)
         IN  /\ log' = Append(log, Exec(npm_bin, << "install", "-g", NPM_PACKAGE >>, proc))
             /\ IF res.kind = "raise"
                THEN RaiseFromEnsure(res.cls, res.msg)
                ELSE /\ stderr' = Append(stderr, Status("installed"))
                     /\ pc' = "find_milaidy_again"
                     /\ UNCHANGED << erOut, runOut, mainOut >>
    /\ UNCHANGED << platform, api, args, nodeActual, node_bin, version,
                    npm_bin, milaidy_bin, npx_bin, bin_path, cmd, checkOut,
                    gvOut, listOut >>

\* ensure_runtime: milaidy_bin = _find_milaidy_bin() after the install
FindMilaidyAgain ==
    /\ pc = "find_milaidy_again"
    /\ \E p \in Which(platform, "milaidy") :
         /\ milaidy_bin' = p
         /\ log' = Append(log, Lookup("milaidy", p))
         /\ LET r == after_second_lookup(p)
            IN  IF r.kind = "return"
                THEN ReturnFromEnsure(r.val)
                ELSE /\ pc' = "find_npx"
                     /\ UNCHANGED << erOut, bin_path >>
    /\ UNCHANGED << platform, api, args, nodeActual, node_bin, version,
                    npm_bin, npx_bin, cmd, stderr, checkOut, runOut,
                    mainOut, gvOut, listOut >>

\* ensure_runtime: npx_bin = _find_npx(); if npx_bin: return npx_bin; raise
FindNpx ==
    /\ pc = "find_npx"
    /\ \E p \in Which(platform, "npx") :
         /\ npx_bin' = p
         /\ log' = Append(log, Lookup("npx", p))
         /\ LET r == after_npx_lookup(p)
            IN  IF r.kind = "return"
                THEN /\ ReturnFromEnsure(r.val)
                     /\ UNCHANGED << runOut, mainOut, stderr >>
                ELSE /\ RaiseFromEnsure(r.cls, r.msg)
                     /\ UNCHANGED bin_path
    /\ UNCHANGED << platform, api, args, nodeActual, node_bin, version,
                    npm_bin, milaidy_bin, cmd, checkOut, gvOut, listOut >>

\* run: build cmd from bin_path and args
BuildCmd ==
    /\ pc = "build_cmd"
    /\ cmd' = build_cmd(bin_path, args)
    /\ pc' = "delegate"
    /\ UNCHANGED << platform, api, args, nodeActual, node_bin, version,
                    npm_bin, milaidy_bin, npx_bin, bin_path, log, stderr,
                    checkOut, erOut, runOut, mainOut, gvOut, listOut >>

\* run: subprocess.run(cmd), and main: sys.exit(exit_code) or a handler
Delegate ==
    /\ pc = "delegate"
    /\ \E proc \in { Exit(c, << >>) : c \in ExitCodes }
                   \cup { Raised("FileNotFoundError"), Raised("OSError"),
                          Raised("KeyboardInterrupt") } :
         LET r == run_result(proc)
             m_ == main_result(r)
         IN  /\ log' = Append(log, Exec(cmd.bin, cmd.rest, proc))
             /\ runOut' = r
             /\ mainOut' = m_
             /\ stderr' = stderr \o m_.printed
             /\ pc' = "done"
    /\ UNCHANGED << platform, api, args, nodeActual, node_bin, version,
                    npm_bin, milaidy_bin, npx_bin, bin_path, cmd, checkOut,
                    erOut, gvOut, listOut >>

\* get_version(): milaidy_bin = _find_milaidy_bin(); if not milaidy_bin: return None
CallGetVersion ==
    /\ pc = "idle"
    /\ api' = "get_version"
    /\ \E p \in Which(platform, "milaidy") :
         /\ milaidy_bin' = p
         /\ log' = Append(log, Lookup("milaidy", p))
         /\ IF Truthy(p)
            THEN /\ pc' = "version_exec"
                 /\ UNCHANGED gvOut
            ELSE /\ pc' = "done"
                 /\ gvOut' = Returns(NoneStr)
    /\ UNCHANGED << platform, args, nodeActual, node_bin, version, npm_bin,
                    npx_bin, bin_path, cmd, stderr, checkOut, erOut, runOut,
                    mainOut, listOut >>

\* what `milaidy --version` can print
ToolVersionOutputs ==
    { << >>,
      << "2", ".", "0", "\n" >>,
      << "w", "\n", "2", ".", "0", "\n" >> }

\* get_version: subprocess.run([milaidy_bin, "--version"], timeout=10)
VersionExec ==
    /\ pc = "version_exec"
    /\ \E proc \in { Exit(0, o) : o \in ToolVersionOutputs }
                   \cup { Exit(1, << >>), Raised("TimeoutExpired"),
                          Raised("FileNotFoundError"), Raised("OSError"),
                          Raised("KeyboardInterrupt") } :
         /\ log' = Append(log, Exec(milaidy_bin, << "--version" >>, proc))
         /\ gvOut' = get_version_result(proc)
    /\ pc' = "done"
    /\ UNCHANGED << platform, api, args, nodeActual, node_bin, version,
                    npm_bin, milaidy_bin, npx_bin, bin_path, cmd, stderr,
                    checkOut, erOut, runOut, mainOut, listOut >>

\* _is_milaidy_installed_globally(): npm_bin = _find_npm(); if not npm_bin: return False
CallIsInstalled ==
    /\ pc = "idle"
    /\ api' = "is_installed"
    /\ \E p \in Which(platform, "npm") :
         /\ npm_bin' = p
         /\ log' = Append(log, Lookup("npm", p))
         /\ IF Truthy(p)
            THEN /\ pc' = "list_exec"
                 /\ UNCHANGED listOut
            ELSE /\ pc' = "done"
                 /\ listOut' = Returns(FALSE)
    /\ UNCHANGED << platform, args, nodeActual, node_bin, version,
                    milaidy_bin, npx_bin, bin_path, cmd, stderr, checkOut,
                    erOut, runOut, mainOut, gvOut >>

\* _is_milaidy_installed_globally: subprocess.run([npm_bin, "list", "-g",
\* NPM_PACKAGE, "--json"], timeout=30) and the parsing of its output
ListExec ==
    /\ pc = "list_exec"
    /\ \E proc \in { Exit(0, d) : d \in JsonDocs }
                   \cup { Exit(1, JsonDoc(TRUE, "object", "absent", FALSE)),
                          Raised("TimeoutExpired"), Raised("FileNotFoundError"),
                          Raised("OSError"), Raised("KeyboardInterrupt") } :
         /\ log' = Append(log, Exec(npm_bin, << "list", "-g", NPM_PACKAGE, "--json" >>, proc))
         /\ listOut' = is_installed_result(proc)
    /\ pc' = "done"
    /\ UNCHANGED << platform, api, args, nodeActual, node_bin, version,
                    npm_bin, milaidy_bin, npx_bin, bin_path, cmd, stderr,
                    checkOut, erOut, runOut, mainOut, gvOut >>

Next ==
    \/ CallMain
    \/ FindNode
    \/ NodeVersion
    \/ FindMilaidy
    \/ InstallFindNpm
    \/ InstallExec
    \/ FindMilaidyAgain
    \/ FindNpx
    \/ BuildCmd
    \/ Delegate
    \/ CallGetVersion
    \/ VersionExec
    \/ CallIsInstalled
    \/ ListExec

Spec == Init /\ [][Next]_vars

----------------------------------------------------------------------------
(* Vocabulary of the properties. *)

LookupsOf(name) ==
    SelectSeq(log, LAMBDA e : e.op = "which" /\ e.name = name)

IsInstall(e) ==
    e.op = "exec" /\ Len(e.rest) >= 1 /\ e.rest[1] = "install"

InstallAttempts == SelectSeq(log, IsInstall)

IsNodeQuery(e) ==
    e.op = "exec" /\ e.rest = << "--version" >> /\ e.bin = node_bin

NodeQueries == SelectSeq(log, IsNodeQuery)

IsLoaderError(c) == IsSubclass(c, "MiladyError")

\* a >= b on version triples, stated on the components
LexGE(a, b) ==
    \/ a[1] > b[1]
    \/ a[1] = b[1] /\ a[2] > b[2]
    \/ a[1] = b[1] /\ a[2] = b[2] /\ a[3] >= b[3]

NodeFound == Len(LookupsOf("node")) = 1 /\ LookupsOf("node")[1].bin # None
NodeAbsent == Len(LookupsOf("node")) = 1 /\ LookupsOf("node")[1].bin = None

NodeInterrupted ==
    Len(NodeQueries) = 1 /\ NodeQueries[1].cls = "KeyboardInterrupt"

\* the version query ran and gave a version
NodeReadable ==
    /\ Len(NodeQueries) = 1
    /\ NodeQueries[1].how = "exit"
    /\ NodeQueries[1].code = 0
    /\ nodeActual # NoVersion

\* the version query ran and failed: could not start, timed out, exited
\* nonzero, or printed no version
NodeUnreadable ==
    /\ Len(NodeQueries) = 1
    /\ ~NodeInterrupted
    /\ ~NodeReadable

FirstLookupDone == api = "main" /\ Len(LookupsOf("milaidy")) >= 1
SecondLookupDone == api = "main" /\ Len(LookupsOf("milaidy")) >= 2

InstallSucceeded ==
    /\ Len(InstallAttempts) = 1
    /\ InstallAttempts[1].how = "exit"
    /\ InstallAttempts[1].code = 0

\* position in the log of the k-th entry that satisfies Test
Position(Test(_), k) ==
    CHOOSE i \in 1 .. Len(log) :
        /\ Test(log[i])
        /\ Cardinality({ j \in 1 .. i : Test(log[j]) }) = k

IsToolLookup(e) == e.op = "which" /\ e.name = "milaidy"

----------------------------------------------------------------------------
\* C1: when the runtime check passed and the first lookup of the tool found
\* it, ensure_runtime() returns exactly that path, and no install was
\* attempted (npm was not even looked up).
C1_FoundFirstReturnsWithoutInstall ==
    (/\ FirstLookupDone
     /\ checkOut.kind = "return"
     /\ LookupsOf("milaidy")[1].bin # None)
    => /\ erOut.kind = "return"
       /\ erOut.val = LookupsOf("milaidy")[1].bin
       /\ InstallAttempts = << >>
       /\ LookupsOf("npm") = << >>
       /\ Len(LookupsOf("milaidy")) = 1

C1_Witness ==
    /\ pc = "done"
    /\ api = "main"
    /\ checkOut.kind = "return"
    /\ LookupsOf("milaidy")[1].bin # None
    /\ erOut.kind = "return"
    /\ runOut.kind = "return"

\* C2: in a call of ensure_runtime() nothing is looked up or installed
\* unless the runtime check has returned; and when node is absent, its
\* version unreadable or too old, the call ends with NodeNotFoundError and
\* returns no path, whatever else is on the search path.
C2_RuntimeCheckedFirst ==
    api = "main" =>
      /\ (\E i \in 1 .. Len(log) :
             \/ log[i].op = "which" /\ log[i].name \in { "milaidy", "npm", "npx" }
             \/ IsInstall(log[i]))
         => /\ checkOut.kind = "return"
            /\ Position(IsNodeQuery, 1) < Position(IsToolLookup, 1)
      /\ (\/ NodeAbsent
          \/ NodeFound /\ NodeUnreadable
          \/ NodeFound /\ NodeReadable /\ ~LexGE(nodeActual, REQUIRED_NODE_VERSION))
         => /\ pc = "done"
            /\ erOut.kind = "raise"
            /\ erOut.cls = "NodeNotFoundError"
            /\ erOut.val = None
            /\ Len(log) <= 2
            /\ LookupsOf("milaidy") = << >>

C2_Witness ==
    /\ pc = "done"
    /\ NodeFound
    /\ NodeReadable
    /\ ~LexGE(nodeActual, REQUIRED_NODE_VERSION)
    /\ erOut.cls = "NodeNotFoundError"

\* C3: _check_node() returns the node path exactly when node was found, its
\* version was read and the version is >= (22,12,0) in lexicographic order;
\* it fails with "not found" when no executable exists, with "could not
\* determine version" when the query fails, and with "too old" exactly when
\* the version read is below the minimum.
C3_CheckMinimum ==
    (api = "main" /\ checkOut.kind # "none" /\ ~NodeInterrupted) =>
      /\ checkOut.kind = "return"
           <=> (NodeFound /\ NodeReadable /\ LexGE(nodeActual, REQUIRED_NODE_VERSION))
      /\ checkOut.kind = "return" => checkOut.val = LookupsOf("node")[1].bin
      /\ NodeReadable => version = nodeActual
      /\ checkOut.kind = "raise" => checkOut.cls = "NodeNotFoundError"
      /\ checkOut.msg = MsgNotFound <=> NodeAbsent
      /\ checkOut.msg = MsgVersionUnknown <=> (NodeFound /\ NodeUnreadable)
      /\ checkOut.msg = MsgVersionTooOld
           <=> (NodeFound /\ NodeReadable /\ ~LexGE(nodeActual, REQUIRED_NODE_VERSION))
      /\ (NodeReadable /\ nodeActual = << 22, 11, 0 >>) => checkOut.msg = MsgVersionTooOld
      /\ (NodeReadable /\ nodeActual = << 22, 12, 0 >>) => checkOut.kind = "return"
      /\ (NodeReadable /\ nodeActual = << 23, 0, 0 >>) => checkOut.kind = "return"

C3_Witness ==
    /\ NodeReadable
    /\ nodeActual = << 23, 0, 0 >>
    /\ checkOut.kind = "return"

\* C4: when the first lookup found nothing, the install exited with 0 and
\* the lookup made after the install finds the tool, ensure_runtime()
\* returns the path of that second lookup; the second lookup is a new query
\* made after the install, and npx is not looked up.
C4_SecondLookupAfterInstall ==
    /\ (SecondLookupDone /\ LookupsOf("milaidy")[2].bin # None)
       => /\ InstallSucceeded
          /\ LookupsOf("milaidy")[1].bin = None
          /\ erOut.kind = "return"
          /\ erOut.val = LookupsOf("milaidy")[2].bin
          /\ LookupsOf("npx") = << >>
    /\ (api = "main" /\ InstallSucceeded /\ erOut.kind # "none")
       => /\ SecondLookupDone
          /\ Position(IsInstall, 1) < Position(IsToolLookup, 2)

C4_Witness ==
    /\ pc = "done"
    /\ InstallSucceeded
    /\ SecondLookupDone
    /\ LookupsOf("milaidy")[1].bin = None
    /\ LookupsOf("milaidy")[2].bin # None
    /\ erOut.kind = "return"

\* C5: when the install exited with 0 and the second lookup still finds
\* nothing, ensure_runtime() returns the path of npx if npx is on the search
\* path and raises RuntimeInstallError (the PATH message) otherwise; the
\* npx path is returned in no other situation.
C5_FallbackRunner ==
    /\ (api = "main" /\ Len(LookupsOf("npx")) >= 1)
       => /\ InstallSucceeded
          /\ Len(LookupsOf("milaidy")) = 2
          /\ LookupsOf("milaidy")[1].bin = None
          /\ LookupsOf("milaidy")[2].bin = None
          /\ LookupsOf("npx")[1].bin # None
             => (erOut.kind = "return" /\ erOut.val = LookupsOf("npx")[1].bin)
          /\ LookupsOf("npx")[1].bin = None
             => (/\ erOut.kind = "raise"
                 /\ erOut.cls = "RuntimeInstallError"
                 /\ erOut.msg = MsgNotOnPath)
    /\ (/\ api = "main"
        /\ InstallSucceeded
        /\ SecondLookupDone
        /\ LookupsOf("milaidy")[2].bin = None
        /\ pc \in { "build_cmd", "delegate", "done" })
       => Len(LookupsOf("npx")) = 1
    /\ (api = "main" /\ erOut.kind = "return" /\ erOut.val = PathFor(platform, "npx"))
       => (Len(LookupsOf("npx")) = 1 /\ LookupsOf("npx")[1].bin = erOut.val)
    /\ (api = "main" /\ erOut.kind = "return" /\ Len(LookupsOf("npx")) = 0)
       => erOut.val = LookupsOf("milaidy")[Len(LookupsOf("milaidy"))].bin

C5_Witness ==
    /\ pc = "done"
    /\ InstallSucceeded
    /\ LookupsOf("milaidy")[2].bin = None
    /\ LookupsOf("npx")[1].bin # None
    /\ erOut.kind = "return"
    /\ erOut.val = LookupsOf("npx")[1].bin

\* the delegated process was started by run(): the last entry of the log
Delegated == api = "main" /\ pc = "done" /\ erOut.kind = "return"
DelegateEntry == log[Len(log)]

\* ensure_runtime() resolved the fallback runner: what it returned is the
\* path the lookup of npx gave
ResolvedRunner ==
    /\ erOut.kind = "return"
    /\ Len(LookupsOf("npx")) = 1
    /\ erOut.val = LookupsOf("npx")[1].bin

\* C6: the command run() executes is [tool_path, ...args] when
\* ensure_runtime() resolved the tool, and [runner_path, package_name,
\* ...args] when it resolved the fallback runner, whatever the file name of
\* the runner is.
C6_CommandLine ==
    (api = "main" /\ pc \in { "delegate", "done" } /\ erOut.kind = "return") =>
      /\ cmd.bin = erOut.val
      /\ cmd.rest = IF ResolvedRunner THEN << NPM_PACKAGE >> \o args ELSE args

\* C7: when the delegated process ran and ended, run() returns its exit
\* code unchanged, zero or not, and raises nothing; when the process could
\* not be started, run() raises a loader error and returns no exit code.
C7_ExitCodePassthrough ==
    Delegated =>
      /\ DelegateEntry.how = "exit"
         => (runOut.kind = "return" /\ runOut.val = DelegateEntry.code)
      /\ (DelegateEntry.how = "raise" /\ IsSubclass(DelegateEntry.cls, "OSError"))
         => (runOut.kind = "raise" /\ IsLoaderError(runOut.cls))
      /\ runOut.kind = "return" => DelegateEntry.how = "exit"

C7_Witness ==
    /\ Delegated
    /\ DelegateEntry.how = "exit"
    /\ DelegateEntry.code = 7
    /\ runOut.kind = "return"
    /\ runOut.val = 7

DiagnosticsPrinted ==
    SelectSeq(stderr, LAMBDA l : l.kind = "diagnostic" /\ l.prefix = "milady: ")

\* C8: main() ends the process in one of three ways: with the exit code of
\* the delegated process; with 1 after one prefixed diagnostic on standard
\* error, on a loader error; with 130 on a keyboard interrupt.
C8_MainOutcomes ==
    (api = "main" /\ pc = "done") =>
      /\ mainOut.kind = "exit"
      /\ \/ /\ runOut.kind = "return"
            /\ mainOut.code = runOut.val
            /\ DiagnosticsPrinted = << >>
         \/ /\ runOut.kind = "raise"
            /\ IsLoaderError(runOut.cls)
            /\ mainOut.code = 1
            /\ Len(DiagnosticsPrinted) = 1
         \/ /\ runOut.kind = "raise"
            /\ runOut.cls = "KeyboardInterrupt"
            /\ mainOut.code = 130
            /\ DiagnosticsPrinted = << >>

\* C9: no failure of a child process leaves ensure_runtime(), run() or
\* get_version() as anything but a loader error: whatever they raise is a
\* MiladyError (a keyboard interrupt is not a failure of the child).
C9_NoRawFailureEscapes ==
    \A r \in { [cls |-> erOut.cls, kind |-> erOut.kind],
               [cls |-> runOut.cls, kind |-> runOut.kind],
               [cls |-> gvOut.cls, kind |-> gvOut.kind] } :
        r.kind = "raise" => (IsLoaderError(r.cls) \/ r.cls = "KeyboardInterrupt")

InstallFailed ==
    \/ Len(LookupsOf("npm")) = 1 /\ LookupsOf("npm")[1].bin = None
    \/ /\ Len(InstallAttempts) = 1
       /\ \/ InstallAttempts[1].how = "exit" /\ InstallAttempts[1].code # 0
          \/ InstallAttempts[1].cls = "TimeoutExpired"

\* C10: ensure_runtime() makes at most one install attempt, and when npm is
\* absent, the install times out or exits nonzero, the call ends with
\* RuntimeInstallError: no retry, no second lookup of the tool, no lookup of
\* npx.
C10_FailedInstallIsTerminal ==
    api = "main" =>
      /\ Len(InstallAttempts) <= 1
      /\ Len(LookupsOf("npm")) <= 1
      /\ InstallFailed
         => /\ pc = "done"
            /\ erOut.kind = "raise"
            /\ erOut.cls = "RuntimeInstallError"
            /\ Len(LookupsOf("milaidy")) = 1
            /\ LookupsOf("npx") = << >>
            /\ IsInstall(log[Len(log)]) \/ log[Len(log)].name = "npm"

C10_Witness ==
    /\ api = "main"
    /\ pc = "done"
    /\ Len(InstallAttempts) = 1
    /\ InstallAttempts[1].how = "exit"
    /\ InstallAttempts[1].code # 0
    /\ erOut.cls = "RuntimeInstallError"

====
